---- MODULE Spec2Model ----
(***************************************************************************)
(* Model of the flat C boundary of go-taglib: src/taglib.cpp (the WASM     *)
(* exports) and src/embed/taglib_wasm.cpp (the handle based revision).     *)
(*                                                                         *)
(* A string is a tuple of one-character strings, offsets are 0-based as in *)
(* TagLib::String.  A nullable pointer is a tuple of length 0 (nullptr) or *)
(* 1 (the pointee).  A PropertyMap is a function from keys to value lists. *)
(* Every exported function is one action.  What file.save() does with the  *)
(* tag it is handed belongs to the wrapped library: it either fails and    *)
(* leaves the file alone or stores the in-memory tag as it stands.         *)
(* PropertyMap keeps its keys in upper case: insert, replace and erase     *)
(* work on key.upper().                                                    *)
(*                                                                         *)
(* A call of src/taglib.cpp opens the file, works and returns: nothing but *)
(* the file lives from one call to the next.  In the handle based revision *)
(* taglib_file_new opens the file and the FileRef behind the handle holds  *)
(* the properties parsed at that moment until taglib_file_free; the file   *)
(* may be rewritten in between.  call holds the arguments and the outcome  *)
(* of the call that returned last, until the host has taken the result;    *)
(* host holds what the host did with the previous result.                  *)
(***************************************************************************)
EXTENDS Integers, Sequences, FiniteSets, TLC

VARIABLES kind, store, hasTag, frames, handle, call, host

vars == <<kind, store, hasTag, frames, handle, call, host>>

(***************************************************************************)
(* Bounds.                                                                 *)
(***************************************************************************)
MaxPairs == 2      \* (key, value) pairs in a store found on disk
MaxRows == 2       \* rows of a WireSequence built by the host
MaxFrames == 2     \* frame instances in an ID3v2 tag
MaxFrameRows == 2  \* rows of a frame WireSequence built by the host

(***************************************************************************)
(* Characters and strings.                                                 *)
(***************************************************************************)
TAB == "TAB"
VT == "VT"
COLON == ":"
NUL == "NUL"

Code(c) ==
  CASE c = NUL -> 0 [] c = TAB -> 9 [] c = VT -> 11 [] c = " " -> 32
    [] c = "1" -> 49 [] c = "2" -> 50 [] c = COLON -> 58
    [] c = "A" -> 65 [] c = "B" -> 66 [] c = "C" -> 67 [] c = "I" -> 73
    [] c = "M" -> 77 [] c = "O" -> 79 [] c = "P" -> 80 [] c = "T" -> 84
    [] c = "X" -> 88 [] c = "Y" -> 89 [] c = "a" -> 97 [] c = "b" -> 98
    [] c = "x" -> 120 [] c = "y" -> 121

Chars ==
  {NUL, TAB, VT, " ", "1", "2", COLON, "A", "B", "C", "I", "M", "O", "P", "T", "X", "Y",
   "a", "b", "x", "y"}

Chr(n) == CHOOSE c \in Chars : Code(c) = n

Min(S) == CHOOSE m \in S : \A o \in S : m <= o

\* TagLib::String::find(c, from): offset of the first c at or after from, or -1
find(s, c, from) ==
  LET hits == {i \in from..(Len(s) - 1) : s[i + 1] = c}
  IN IF hits = {} THEN -1 ELSE Min(hits)

\* TagLib::String::substr(pos, n)
substr(s, pos, n) == SubSeq(s, pos + 1, IF pos + n < Len(s) THEN pos + n ELSE Len(s))

\* TagLib::String::substr(pos)
substrFrom(s, pos) == SubSeq(s, pos + 1, Len(s))

\* the character String::upper puts for c: 'a'..'z' are shifted by 'A' - 'a'
upperChar ==
  [c \in Chars |->
     IF Code(c) >= Code("a") /\ Code(c) <= 122 THEN Chr(Code(c) + Code("A") - Code("a"))
     ELSE c]

\* TagLib::String::upper
upper(s) == [i \in 1..Len(s) |-> upperChar[s[i]]]

\* std::basic_string operator<, the order of TagLib::Map's keys
RECURSIVE StrLess(_, _)
StrLess(a, b) ==
  IF b = <<>> THEN FALSE
  ELSE IF a = <<>> THEN TRUE
  ELSE IF Code(Head(a)) # Code(Head(b)) THEN Code(Head(a)) < Code(Head(b))
  ELSE StrLess(Tail(a), Tail(b))

\* iteration order of a TagLib::Map over the key set S
RECURSIVE InOrder(_)
InOrder(S) ==
  IF S = {} THEN <<>>
  ELSE LET m == CHOOSE k \in S : \A o \in S \ {k} : StrLess(k, o)
       IN <<m>> \o InOrder(S \ {m})

\* to_char_array: strdup of the UTF-8 bytes, which ends at the first NUL
to_char_array(s) ==
  IF find(s, NUL, 0) = -1 THEN s ELSE substr(s, 0, find(s, NUL, 0))

\* TagLib::String::split(separator): the pieces between the separators; the
\* piece after the last separator is appended only if index == 0 or
\* index < size(), so an empty piece behind a final separator is dropped
RECURSIVE splitLoop(_, _, _)
splitLoop(s, index, list) ==
  LET sep == find(s, VT, index)
  IN IF sep < 0
     THEN IF index = 0 \/ index < Len(s)
          THEN Append(list, substr(s, index, Len(s) - index))
          ELSE list
     ELSE splitLoop(s, sep + 1, Append(list, substr(s, index, sep - index)))

\* value.split("\v")
split(s) == splitLoop(s, 0, <<>>)

(***************************************************************************)
(* PropertyMap.                                                            *)
(***************************************************************************)
EmptyMap == [k \in {} |-> <<>>]

\* erase that empties the value list and keeps the key
eraseLeavesKey(m, key) == [k \in DOMAIN m |-> IF k = upper(key) THEN <<>> ELSE m[k]]

\* PropertyMap::erase(key): SimplePropertyMap::erase(key.upper())
erase(m, key) == [k \in (DOMAIN m) \ {upper(key)} |-> m[k]]

\* PropertyMap::replace(key, values): realKey = key.upper(); erase(realKey);
\* insert(realKey, values)
replace(m, key, values) ==
  LET realKey == upper(key)
  IN [k \in (DOMAIN m) \cup {realKey} |-> IF k = realKey THEN values ELSE m[k]]

\* PropertyMap::insert(key, values): realKey = key.upper(); a new entry when
\* realKey is not found, the values appended to those it holds otherwise
insert(m, key, values) ==
  LET realKey == upper(key)
  IN [k \in (DOMAIN m) \cup {realKey} |->
        IF k = realKey THEN (IF realKey \in DOMAIN m THEN m[realKey] \o values ELSE values)
        ELSE m[k]]

\* PropertyMap::contains(key): SimplePropertyMap::contains(key.upper())
contains(m, key) == upper(key) \in DOMAIN m

\* PropertyMap::operator[](key): the values found under key.upper()
lookup(m, key) == m[upper(key)]

\* PropertyMap::operator==: each map holds every entry of the other
PropsEqual(a, b) ==
  /\ \A k \in DOMAIN b : k \in DOMAIN a /\ a[k] = b[k]
  /\ \A k \in DOMAIN a : k \in DOMAIN b /\ b[k] = a[k]

CLEAR == 1
DIFF_SAVE == 2

HasFlag(opts, flag) == (opts \div flag) % 2 = 1

None == <<>>
Some(x) == <<x>>

\* a null-terminated char* array holding rows: the rows, then the sentinel
CArray(rows) == [i \in 1..(Len(rows) + 1) |-> IF i <= Len(rows) THEN Some(rows[i]) ELSE None]

SeqsUpTo(S, n) == UNION {[1..m -> S] : m \in 0..n}

RECURSIVE SumSizes(_, _)
SumSizes(m, ks) ==
  IF ks = <<>> THEN 0 ELSE Len(m[Head(ks)]) + SumSizes(m, Tail(ks))

(***************************************************************************)
(* The file.  FileRef opens every kind but "missing"; MPEG::File is valid  *)
(* for every file that can be opened, whatever its format.                 *)
(***************************************************************************)
Kinds == {"missing", "mpeg", "other"}

FileRefIsNull == kind = "missing"

(***************************************************************************)
(* taglib_file_tags (src/taglib.cpp)                                       *)
(***************************************************************************)
\* the first loop: len += kvs.second.size()
countValues(properties) == SumSizes(properties, InOrder(DOMAIN properties))

\* one row per key, the values packed with vertical tabs
RECURSIVE packed(_)
packed(values) ==
  IF Len(values) = 1 THEN values[1] ELSE values[1] \o <<VT>> \o packed(Tail(values))

rowsOfKeyPacked(key, values) ==
  IF values = <<>> THEN <<>> ELSE <<key \o <<TAB>> \o packed(values)>>

\* the rows of one key, one per value, each carrying the full key
RECURSIVE rowsOfKey(_, _)
rowsOfKey(key, values) ==
  IF values = <<>> THEN <<>>
  ELSE <<to_char_array(key \o <<TAB>> \o Head(values))>> \o rowsOfKey(key, Tail(values))

RECURSIVE rowsOfKeys(_, _)
rowsOfKeys(properties, ks) ==
  IF ks = <<>> THEN <<>>
  ELSE rowsOfKey(Head(ks), properties[Head(ks)]) \o rowsOfKeys(properties, Tail(ks))

\* the second loop
tagRows(properties) == rowsOfKeys(properties, InOrder(DOMAIN properties))

\* tags[0..len-1] filled by the second loop, tags[len] = nullptr
tagsArray(properties) ==
  LET len == countValues(properties)
      rows == tagRows(properties)
  IN [i \in 1..(len + 1) |-> IF i <= len /\ i <= Len(rows) THEN Some(rows[i]) ELSE None]

ReadResult(mallocOk) ==
  IF FileRefIsNull THEN None
  ELSE IF ~mallocOk THEN None
  ELSE Some(tagsArray(store))

NoCall ==
  [op |-> "none", tags |-> None, opts |-> 0, pre |-> EmptyMap, props |-> EmptyMap,
   ret |-> FALSE, out |-> None, nSet |-> 0, nSave |-> 0, mallocOk |-> TRUE,
   filename |-> None, saved |-> FALSE, isNull |-> FALSE,
   preFrames |-> <<>>, preHasTag |-> FALSE, tag |-> <<>>]

taglib_file_tags(mallocOk) ==
  /\ call' = [NoCall EXCEPT !.op = "taglib_file_tags", !.pre = store,
                             !.out = ReadResult(mallocOk), !.mallocOk = mallocOk,
                             !.isNull = FileRefIsNull]
  /\ UNCHANGED <<kind, store, hasTag, frames, handle, host>>

(***************************************************************************)
(* The handle based revision (src/embed/taglib_wasm.cpp).  handle is null  *)
(* or the FileRef that taglib_file_new built: whether it is null, and the  *)
(* properties of the tag it holds in memory.  FileRef::properties() of a   *)
(* null FileRef is an empty map, setProperties on it does nothing and save *)
(* fails.                                                                  *)
(***************************************************************************)
\* new TagLib::FileRef(filename): the file is opened and parsed here
FileRef(filename) ==
  [isNull |-> FileRefIsNull, properties |-> IF FileRefIsNull THEN EmptyMap ELSE store]

taglib_file_new(filename) ==
  /\ handle' = Some(FileRef(filename))
  /\ UNCHANGED <<kind, store, hasTag, frames, call>>

taglib_file_is_valid ==
  /\ call' = [NoCall EXCEPT !.op = "taglib_file_is_valid", !.ret = ~handle[1].isNull,
                             !.isNull = handle[1].isNull]
  /\ UNCHANGED <<kind, store, hasTag, frames, handle>>

\* f->properties()
embedProperties == handle[1].properties

\* taglib_file_tags(file): no validity test, the array comes from new[]
embed_taglib_file_tags ==
  /\ call' = [NoCall EXCEPT !.op = "embed_taglib_file_tags", !.pre = embedProperties,
                             !.out = Some(tagsArray(embedProperties)),
                             !.isNull = handle[1].isNull]
  /\ UNCHANGED <<kind, store, hasTag, frames, handle>>

\* the row loop of taglib_write_tags: a fresh map filled with insert
RECURSIVE insertRows(_, _, _)
insertRows(properties, tags, i) ==
  IF tags[i + 1] = None THEN properties
  ELSE LET row == tags[i + 1][1]
           tabPos == find(row, TAB, 0)
       IN insertRows(IF tabPos # -1
                     THEN insert(properties, substr(row, 0, tabPos),
                                 <<substrFrom(row, tabPos + 1)>>)
                     ELSE properties,
                     tags, i + 1)

\* taglib_write_tags(file, tags): setProperties, then save
taglib_write_tags(tags, saveOk) ==
  LET f == handle[1]
      properties == insertRows(EmptyMap, tags, 0)
      set == IF f.isNull THEN f ELSE [f EXCEPT !.properties = properties]
      saved == ~f.isNull /\ saveOk
  IN /\ ~f.isNull \/ saveOk
     /\ handle' = Some(set)
     /\ store' = IF saved THEN set.properties ELSE store
     /\ call' = [NoCall EXCEPT !.op = "taglib_write_tags", !.tags = Some(tags),
                   !.pre = f.properties, !.props = properties, !.ret = saved,
                   !.nSet = 1, !.nSave = 1, !.saved = saved, !.isNull = f.isNull]
     /\ UNCHANGED <<kind, hasTag, frames>>

\* taglib_file_save(file)
taglib_file_save(saveOk) ==
  LET f == handle[1]
      saved == ~f.isNull /\ saveOk
  IN /\ ~f.isNull \/ saveOk
     /\ store' = IF saved THEN f.properties ELSE store
     /\ call' = [NoCall EXCEPT !.op = "taglib_file_save", !.pre = f.properties,
                   !.ret = saved, !.nSave = 1, !.saved = saved, !.isNull = f.isNull]
     /\ UNCHANGED <<kind, hasTag, frames, handle>>

\* taglib_file_free(file): delete
taglib_file_free ==
  /\ handle' = None
  /\ UNCHANGED <<kind, store, hasTag, frames, call>>

(***************************************************************************)
(* taglib_file_write_tags (src/taglib.cpp)                                 *)
(***************************************************************************)
\* the clear that tests the DIFF_SAVE bit
clearOnWrongBit(properties, opts) ==
  IF (opts \div 2) % 2 = 1 THEN [k \in {} |-> <<>>] ELSE properties

\* if (opts & CLEAR) properties.clear();
clearIfAsked(properties, opts) ==
  IF HasFlag(opts, CLEAR) THEN EmptyMap ELSE properties

\* a row loop body that inserts: the values are appended to those of the key
rowDirectiveAppends(properties, row) ==
  LET ti == find(row, TAB, 0)
  IN IF ti # -1
     THEN LET key == substr(row, 0, ti)
              value == substrFrom(row, ti + 1)
          IN IF value = <<>> THEN erase(properties, key)
             ELSE replace(properties, key,
                          (IF contains(properties, key) THEN lookup(properties, key)
                           ELSE <<>>) \o split(value))
     ELSE properties

\* the body of the row loop
rowDirective(properties, row) ==
  LET ti == find(row, TAB, 0)
  IN IF ti # -1
     THEN LET key == substr(row, 0, ti)
              value == substrFrom(row, ti + 1)
          IN IF value = <<>> THEN erase(properties, key)
             ELSE replace(properties, key, split(value))
     ELSE properties

\* for (size_t i = 0; tags[i]; i++)
RECURSIVE applyRows(_, _, _)
applyRows(properties, tags, i) ==
  IF tags[i + 1] = None THEN properties
  ELSE applyRows(rowDirective(properties, tags[i + 1][1]), tags, i + 1)

\* a comparison that only asks whether the file holds every entry computed
diffSkipsOneWay(opts, current, properties) ==
  /\ (opts \div 2) % 2 = 1
  /\ \A k \in DOMAIN properties : k \in DOMAIN current /\ current[k] = properties[k]

\* if (opts & DIFF_SAVE) if (file.properties() == properties) return true;
diffSkips(opts, current, properties) ==
  HasFlag(opts, DIFF_SAVE) /\ PropsEqual(current, properties)

taglib_file_write_tags(filename, tags, opts, saveOk) ==
  LET early == filename = None \/ tags = None \/ FileRefIsNull
      properties == IF early THEN EmptyMap
                    ELSE applyRows(clearIfAsked(store, opts), tags[1], 0)
      skip == ~early /\ diffSkips(opts, store, properties)
      saves == ~early /\ ~skip
  IN /\ saves \/ saveOk
     /\ call' = [NoCall EXCEPT !.op = "taglib_file_write_tags", !.tags = tags,
                   !.opts = opts, !.pre = store, !.props = properties,
                   !.ret = IF early THEN FALSE ELSE IF skip THEN TRUE ELSE saveOk,
                   !.filename = filename,
                   !.nSet = IF saves THEN 1 ELSE 0,
                   !.nSave = IF saves THEN 1 ELSE 0,
                   !.saved = saves /\ saveOk]
     /\ store' = IF saves /\ saveOk THEN properties ELSE store
     /\ UNCHANGED <<kind, hasTag, frames, handle>>

(***************************************************************************)
(* ID3v2 frames.  A frame is its frame ID, the class of the frame object,  *)
(* and its content: the field list of a text frame (a user text frame      *)
(* keeps its description as the first field), the description and the text *)
(* of a comment, the e-mail and the rating of a popularimeter.  The tag is *)
(* the list of its frames; the bucket of an ID in the frame list map is    *)
(* the frames of that ID, in the order of the list.                        *)
(***************************************************************************)
TXXX == <<"T", "X", "X", "X">>
TIT2 == <<"T", "I", "T", "2">>
COMM == <<"C", "O", "M", "M">>
POPM == <<"P", "O", "P", "M">>

Frame(id, cls, desc, fields, rating) ==
  [id |-> id, cls |-> cls, desc |-> desc, fields |-> fields, rating |-> rating]

\* the frame class FrameFactory builds for a frame ID read from a file
ClassOf(id) ==
  IF id = TXXX THEN "UserTextIdentificationFrame"
  ELSE IF id # <<>> /\ Head(id) = "T" THEN "TextIdentificationFrame"
  ELSE IF id = COMM THEN "CommentsFrame"
  ELSE IF id = POPM THEN "PopularimeterFrame"
  ELSE "Frame"

\* a frame as the next call finds it: the class of its ID, and a user text
\* frame filled up to a description and a value
Reparse(f) ==
  LET cls == ClassOf(f.id)
  IN [f EXCEPT !.cls = cls,
               !.fields = IF cls = "UserTextIdentificationFrame"
                          THEN (IF Len(f.fields) = 0 THEN <<<<>>, <<>>>>
                                ELSE IF Len(f.fields) = 1 THEN <<f.fields[1], <<>>>>
                                ELSE f.fields)
                          ELSE f.fields]

\* the tag as rendered and read back: frames whose ID is not four bytes are
\* not written
RECURSIVE Persisted(_)
Persisted(tag) ==
  IF tag = <<>> THEN <<>>
  ELSE IF Len(Head(tag).id) # 4 THEN Persisted(Tail(tag))
  ELSE <<Reparse(Head(tag))>> \o Persisted(Tail(tag))

DigitChar(d) == <<"0", "1", "2", "3", "4", "5", "6", "7", "8", "9">>[d + 1]

\* TagLib::String::number
RECURSIVE number(_)
number(n) == IF n < 10 THEN <<DigitChar(n)>> ELSE number(n \div 10) \o <<DigitChar(n % 10)>>

\* StringList::toString(" ")
RECURSIVE toString(_)
toString(l) ==
  IF l = <<>> THEN <<>>
  ELSE IF Len(l) = 1 THEN l[1]
  ELSE l[1] \o <<" ">> \o toString(Tail(l))

\* the frames of one ID, in list order
RECURSIVE bucket(_, _)
bucket(tag, id) ==
  IF tag = <<>> THEN <<>>
  ELSE IF Head(tag).id = id THEN <<Head(tag)>> \o bucket(Tail(tag), id)
  ELSE bucket(Tail(tag), id)

\* Tag::removeFrames(id): every frame of the bucket of id leaves the tag
RECURSIVE removeFrames(_, _)
removeFrames(tag, id) ==
  IF tag = <<>> THEN <<>>
  ELSE IF Head(tag).id = id THEN removeFrames(Tail(tag), id)
  ELSE <<Head(tag)>> \o removeFrames(Tail(tag), id)

FrameIDs(tag) == {tag[i].id : i \in 1..Len(tag)}

(***************************************************************************)
(* taglib_file_id3v2_frames (src/taglib.cpp)                               *)
(***************************************************************************)
\* the exits as they were before they returned an empty array
emptyFramesNull(mallocOk) == <<>>

\* the sentinel-only array of the two "no frames" exits
emptyFrames(mallocOk) == IF ~mallocOk THEN None ELSE Some(<<None>>)

\* key and value of one frame instance
frameRow(f) ==
  LET frameID == f.id
      kv == IF frameID = TXXX
            THEN IF f.cls = "UserTextIdentificationFrame"
                 THEN <<frameID \o <<COLON>> \o (IF f.fields = <<>> THEN <<>> ELSE f.fields[1]),
                        IF f.fields # <<>> THEN f.fields[Len(f.fields)] ELSE <<>>>>
                 ELSE <<frameID, <<>>>>
            ELSE IF frameID = COMM
            THEN IF f.cls = "CommentsFrame"
                 THEN <<frameID \o <<COLON>> \o f.desc, toString(f.fields)>>
                 ELSE <<frameID, <<>>>>
            ELSE IF frameID = POPM
            THEN IF f.cls = "PopularimeterFrame"
                 THEN <<frameID \o <<COLON>> \o f.desc, number(f.rating)>>
                 ELSE <<frameID, <<>>>>
            ELSE <<frameID, toString(f.fields)>>
  IN to_char_array(kv[1] \o <<TAB>> \o kv[2])

RECURSIVE rowsOfBucket(_)
rowsOfBucket(fs) ==
  IF fs = <<>> THEN <<>> ELSE <<frameRow(Head(fs))>> \o rowsOfBucket(Tail(fs))

RECURSIVE rowsOfBuckets(_, _)
rowsOfBuckets(tag, ids) ==
  IF ids = <<>> THEN <<>>
  ELSE rowsOfBucket(bucket(tag, Head(ids))) \o rowsOfBuckets(tag, Tail(ids))

frameRows(tag) == rowsOfBuckets(tag, InOrder(FrameIDs(tag)))

FramesResult(mallocOk) ==
  IF FileRefIsNull THEN None
  ELSE IF kind # "mpeg" \/ ~hasTag THEN emptyFrames(mallocOk)
  ELSE IF Len(frames) = 0 THEN emptyFrames(mallocOk)
  ELSE IF ~mallocOk THEN None
  ELSE Some(CArray(frameRows(frames)))

taglib_file_id3v2_frames(mallocOk) ==
  /\ call' = [NoCall EXCEPT !.op = "taglib_file_id3v2_frames", !.preFrames = frames,
                             !.preHasTag = hasTag, !.out = FramesResult(mallocOk),
                             !.mallocOk = mallocOk, !.filename = Some("f")]
  /\ UNCHANGED <<kind, store, hasTag, frames, handle, host>>

(***************************************************************************)
(* taglib_file_write_id3v2_frames (src/taglib.cpp)                         *)
(***************************************************************************)
\* the base frame ID of a key: the key up to its first ':'
baseFrameID(key) ==
  IF find(key, COLON, 0) # -1 THEN substr(key, 0, find(key, COLON, 0)) ELSE key

\* first loop: the base frame ID of every row that has a TAB
RECURSIVE frameIDsToKeep(_, _)
frameIDsToKeep(rows, i) ==
  IF rows[i + 1] = None THEN <<>>
  ELSE LET row == rows[i + 1][1]
           ti == find(row, TAB, 0)
       IN (IF ti # -1 THEN <<baseFrameID(substr(row, 0, ti))>> ELSE <<>>)
          \o frameIDsToKeep(rows, i + 1)

\* second loop: remove the frames of every ID that is not in the list
RECURSIVE removeUnkept(_, _, _)
removeUnkept(tag, ids, keep) ==
  IF ids = <<>> THEN tag
  ELSE LET keepFrame == \E i \in 1..Len(keep) : Head(ids) = keep[i]
       IN removeUnkept(IF ~keepFrame THEN removeFrames(tag, Head(ids)) ELSE tag,
                       Tail(ids), keep)

\* the clear that tests the DIFF_SAVE bit
clearFramesOnWrongBit(tag, rows, opts) ==
  IF (opts \div 2) % 2 = 1
  THEN removeUnkept(tag, InOrder(FrameIDs(tag)), frameIDsToKeep(rows, 0))
  ELSE tag

clearFrames(tag, rows, opts) ==
  IF HasFlag(opts, CLEAR)
  THEN removeUnkept(tag, InOrder(FrameIDs(tag)), frameIDsToKeep(rows, 0))
  ELSE tag

\* the while loop that splits the value at vertical tabs
RECURSIVE splitValue(_, _, _)
splitValue(value, pos, values) ==
  LET nextPos == find(value, VT, pos)
  IN IF nextPos = -1 THEN Append(values, substrFrom(value, pos))
     ELSE splitValue(value, nextPos + 1, Append(values, substr(value, pos, nextPos - pos)))

\* Frame::Header::setData: the frame ID is the first four bytes it is given
headerFrameID(key) == IF Len(key) < 4 THEN <<>> ELSE substr(key, 0, 4)

\* the key handed to removeFrames
removalID(key) == key

\* the body of the row loop
frameDirective(tag, row) ==
  LET ti == find(row, TAB, 0)
  IN IF ti # -1
     THEN LET key == substr(row, 0, ti)
              value == substrFrom(row, ti + 1)
              removed == removeFrames(tag, removalID(key))
          IN IF value # <<>>
             THEN IF key # <<>> /\ Head(key) = "T"
                  THEN Append(removed, Frame(headerFrameID(key), "TextIdentificationFrame",
                                             <<>>, splitValue(value, 0, <<>>), 0))
                  ELSE IF key = COMM
                  THEN Append(removed, Frame(COMM, "CommentsFrame", <<>>, <<value>>, 0))
                  ELSE removed
             ELSE removed
     ELSE tag

RECURSIVE addFrames(_, _, _)
addFrames(tag, rows, i) ==
  IF rows[i + 1] = None THEN tag
  ELSE addFrames(frameDirective(tag, rows[i + 1][1]), rows, i + 1)

taglib_file_write_id3v2_frames(filename, rows, opts, saveOk) ==
  LET early == filename = None \/ rows = None \/ kind = "missing"
      id3v2Tag == IF hasTag THEN frames ELSE <<>>
      tag == IF early THEN <<>>
             ELSE addFrames(clearFrames(id3v2Tag, rows[1], opts), rows[1], 0)
  IN /\ ~early \/ saveOk
     /\ call' = [NoCall EXCEPT !.op = "taglib_file_write_id3v2_frames", !.tags = rows,
                   !.opts = opts, !.preFrames = frames, !.preHasTag = hasTag,
                   !.tag = tag, !.filename = filename,
                   !.ret = ~early /\ saveOk,
                   !.nSave = IF early THEN 0 ELSE 1,
                   !.saved = ~early /\ saveOk]
     /\ frames' = IF ~early /\ saveOk THEN Persisted(tag) ELSE frames
     /\ hasTag' = IF ~early /\ saveOk THEN Persisted(tag) # <<>> ELSE hasTag
     /\ UNCHANGED <<kind, store, handle>>

(***************************************************************************)
(* Inputs of the tag calls.                                                *)
(***************************************************************************)
KeyA == <<"A">>
KeyB == <<"B">>
Keys == {KeyA, KeyB}

\* values a store read from disk may hold: text, the empty string, and text
\* with a vertical tab inside
StoreVals == {<<"x">>, <<>>, <<"x", VT, "y">>}

InitStores ==
  {s \in UNION {[K -> SeqsUpTo(StoreVals, MaxPairs) \ {<<>>}] : K \in SUBSET Keys} :
     SumSizes(s, InOrder(DOMAIN s)) <= MaxPairs}

\* rows a host sends: a deletion under a lower-case key, a value that ends in
\* a vertical tab, packed values, a lower-case key with a second TAB in the
\* value, a row without TAB
TagRowInputs ==
  { <<"a", TAB>>,
    KeyA \o <<TAB, "x", VT>>,
    KeyA \o <<TAB, "x", VT, "y">>,
    <<"b", TAB, "y", TAB, "x">>,
    KeyA }

Filename == Some("f")

\* (filename, tags): host-built sequences and the null arguments
WriteArgs ==
  {<<Filename, Some(CArray(rows))>> : rows \in SeqsUpTo(TagRowInputs, MaxRows)}
  \cup {<<Filename, None>>, <<None, Some(CArray(<<>>))>>}

Opts == 0..3

(***************************************************************************)
(* The host (the Go side of the binding).  It calls with arguments of its  *)
(* own, hands the array a read returned back to a write unchanged, repeats *)
(* a write that succeeded with the same rows, the same CLEAR setting and   *)
(* DIFF_SAVE, and releases what a call returned.                           *)
(***************************************************************************)
Idle == call.op = "none"

HostFresh == [fedBack |-> FALSE, again |-> FALSE]

HostReads ==
  /\ Idle
  /\ host' = HostFresh
  /\ \E mallocOk \in BOOLEAN : taglib_file_tags(mallocOk)

HostWrites ==
  /\ Idle
  /\ host' = HostFresh
  /\ \E a \in WriteArgs, opts \in Opts, saveOk \in BOOLEAN :
        taglib_file_write_tags(a[1], a[2], opts, saveOk)

HostWritesBack ==
  /\ call.op = "taglib_file_tags"
  /\ call.out # None
  /\ host' = [HostFresh EXCEPT !.fedBack = TRUE]
  /\ \E opts \in Opts, saveOk \in BOOLEAN :
        taglib_file_write_tags(Filename, call.out, opts, saveOk)

HostWritesAgain ==
  /\ call.op = "taglib_file_write_tags"
  /\ ~host.again
  /\ call.ret
  /\ host' = [fedBack |-> host.fedBack, again |-> TRUE]
  /\ \E saveOk \in BOOLEAN :
        taglib_file_write_tags(call.filename, call.tags,
                               (call.opts % 2) + DIFF_SAVE, saveOk)

HostReleases ==
  /\ ~Idle
  /\ call' = NoCall
  /\ host' = HostFresh
  /\ UNCHANGED <<kind, store, hasTag, frames, handle>>

(***************************************************************************)
(* The host of the handle based revision.  It holds at most one handle,    *)
(* calls on it between taglib_file_new and taglib_file_free, and the file  *)
(* may be rewritten by a call of src/taglib.cpp while the handle is open.  *)
(***************************************************************************)
\* rows sent through a handle: a key in both cases, an empty value, no TAB
EmbedRowInputs ==
  { <<"a", TAB, "x">>,
    KeyA \o <<TAB, "y">>,
    KeyB \o <<TAB>>,
    KeyA }

HostOpens ==
  /\ Idle
  /\ handle = None
  /\ host' = HostFresh
  /\ taglib_file_new(Filename)

HostChecks ==
  /\ Idle
  /\ handle # None
  /\ host' = HostFresh
  /\ taglib_file_is_valid

HostReadsHandle ==
  /\ Idle
  /\ handle # None
  /\ host' = HostFresh
  /\ embed_taglib_file_tags

HostWritesHandle ==
  /\ Idle
  /\ handle # None
  /\ host' = HostFresh
  /\ \E rows \in SeqsUpTo(EmbedRowInputs, MaxRows), saveOk \in BOOLEAN :
        taglib_write_tags(CArray(rows), saveOk)

HostSavesHandle ==
  /\ Idle
  /\ handle # None
  /\ host' = HostFresh
  /\ \E saveOk \in BOOLEAN : taglib_file_save(saveOk)

HostFrees ==
  /\ Idle
  /\ handle # None
  /\ host' = HostFresh
  /\ taglib_file_free

\* the file is rewritten while the handle is open
HostRewrites ==
  /\ Idle
  /\ handle # None
  /\ host' = HostFresh
  /\ \E row \in EmbedRowInputs, opts \in {0, CLEAR} :
        taglib_file_write_tags(Filename, Some(CArray(<<row>>)), opts, TRUE)

(***************************************************************************)
(* What the claims speak of, stated without the operators of the code.     *)
(***************************************************************************)
IsWrite == call.op = "taglib_file_write_tags"

\* the write got past its early returns: arguments not null, file opened
Ran == IsWrite /\ call.filename # None /\ call.tags # None /\ kind # "missing"

\* the rows of the array handed to the write, up to the sentinel
RowsIn == LET arr == call.tags[1] IN [i \in 1..(Len(arr) - 1) |-> arr[i][1]]

HasTab(row) == \E i \in 1..Len(row) : row[i] = TAB
FirstTab(row) == CHOOSE i \in 1..Len(row) : row[i] = TAB /\ \A j \in 1..(i - 1) : row[j] # TAB
RowKey(row) == [i \in 1..(FirstTab(row) - 1) |-> row[i]]
RowValue(row) == [i \in 1..(Len(row) - FirstTab(row)) |-> row[FirstTab(row) + i]]

\* the key of a row as the store knows it: a PropertyStore looks a key up
\* without regard to its case and keeps it in upper case
StoreKey(row) == upper(RowKey(row))

\* the rows that are directives for key k, and the last of them
DirectivesFor(k) == {i \in 1..Len(RowsIn) : HasTab(RowsIn[i]) /\ StoreKey(RowsIn[i]) = k}
LastFor(k) == RowsIn[CHOOSE i \in DirectivesFor(k) : \A j \in DirectivesFor(k) : j <= i]
KeysIn == {StoreKey(RowsIn[i]) : i \in {j \in 1..Len(RowsIn) : HasTab(RowsIn[j])}}

RECURSIVE JoinVT(_)
JoinVT(l) ==
  IF Len(l) = 0 THEN <<>>
  ELSE IF Len(l) = 1 THEN l[1]
  ELSE l[1] \o <<VT>> \o JoinVT(Tail(l))

NoVT(str) == \A i \in 1..Len(str) : str[i] # VT

\* l is the list v1..vn that value packs with vertical tabs
PacksTo(value, l) ==
  /\ Len(l) >= 1
  /\ \A i \in 1..Len(l) : NoVT(l[i])
  /\ JoinVT(l) = value

\* l is the list value packs with vertical tabs, less the empty last piece
\* of a value that ends in a vertical tab
PacksToLessLastEmpty(value, l) ==
  IF value # <<>> /\ value[Len(value)] = VT
  THEN PacksTo([i \in 1..(Len(value) - 1) |-> value[i]], l)
  ELSE PacksTo(value, l)

Flag(bit) == (call.opts \div bit) % 2 = 1

InitTags ==
  /\ kind \in {"missing", "mpeg"}
  /\ store \in IF kind = "missing" THEN {EmptyMap} ELSE InitStores
  /\ hasTag = FALSE
  /\ frames = <<>>
  /\ handle = None
  /\ call = NoCall
  /\ host = HostFresh

NextTags ==
  \/ HostReads
  \/ HostWrites
  \/ HostWritesBack
  \/ HostWritesAgain
  \/ HostReleases

SpecTags == InitTags /\ [][NextTags]_vars

InitEmbed ==
  /\ kind \in {"missing", "mpeg"}
  /\ store \in IF kind = "missing" THEN {EmptyMap} ELSE InitStores
  /\ hasTag = FALSE
  /\ frames = <<>>
  /\ handle = None
  /\ call = NoCall
  /\ host = HostFresh

NextEmbed ==
  \/ HostReads
  \/ HostOpens
  \/ HostChecks
  \/ HostReadsHandle
  \/ HostWritesHandle
  \/ HostSavesHandle
  \/ HostRewrites
  \/ HostFrees
  \/ HostReleases

SpecEmbed == InitEmbed /\ [][NextEmbed]_vars

(***************************************************************************)
(* Inputs of the frame calls and the host's use of them.                   *)
(***************************************************************************)
\* frames a tag on disk may hold
InitFrames ==
  { Frame(TXXX, "UserTextIdentificationFrame", <<>>, <<<<"a">>, <<"x">>>>, 0),
    Frame(TXXX, "UserTextIdentificationFrame", <<>>, <<<<"b">>, <<"y">>>>, 0),
    Frame(TIT2, "TextIdentificationFrame", <<>>, <<<<"x">>>>, 0),
    Frame(COMM, "CommentsFrame", <<"a">>, <<<<"x">>>>, 0),
    Frame(POPM, "PopularimeterFrame", <<"a">>, <<>>, 12) }

\* rows a host sends: keys are a frame ID, or a frame ID, ':' and a qualifier
FrameRowInputs ==
  { TXXX \o <<COLON, "a", TAB, "y">>,
    TIT2 \o <<TAB, "x", VT, "y">>,
    TIT2 \o <<TAB>>,
    COMM \o <<TAB, "y">>,
    TIT2 }

WriteFramesArgs ==
  {<<Filename, Some(CArray(rows))>> : rows \in SeqsUpTo(FrameRowInputs, MaxFrameRows)}
  \cup {<<Filename, None>>, <<None, Some(CArray(<<>>))>>}

\* no option, CLEAR, and CLEAR with the DIFF_SAVE bit this call ignores
FrameOpts == {0, CLEAR, CLEAR + DIFF_SAVE}

HostReadsFrames ==
  /\ Idle
  /\ host' = HostFresh
  /\ \E mallocOk \in BOOLEAN : taglib_file_id3v2_frames(mallocOk)

HostWritesFrames ==
  /\ Idle
  /\ Len(frames) <= MaxFrames
  /\ host' = HostFresh
  /\ \E a \in WriteFramesArgs, opts \in FrameOpts, saveOk \in BOOLEAN :
        taglib_file_write_id3v2_frames(a[1], a[2], opts, saveOk)

InitFramesSpec ==
  /\ kind \in Kinds
  /\ hasTag \in IF kind = "missing" THEN {FALSE} ELSE BOOLEAN
  /\ frames \in IF hasTag THEN SeqsUpTo(InitFrames, MaxFrames) ELSE {<<>>}
  /\ store = EmptyMap
  /\ handle = None
  /\ call = NoCall
  /\ host = HostFresh

NextFrames ==
  \/ HostReadsFrames
  \/ HostWritesFrames
  \/ HostReleases

SpecFrames == InitFramesSpec /\ [][NextFrames]_vars

(***************************************************************************)
(* Claims about the tag calls, checked under SpecTags (C6: SpecEmbed).     *)
(***************************************************************************)
\* every key holds exactly one value, which is non-empty and has no vertical tab
SingleValued(S) ==
  \A k \in DOMAIN S : Len(S[k]) = 1 /\ S[k][1] # <<>> /\ NoVT(S[k][1])

\* every store with the array that readTags returns for it
Encoded == {<<S, Some(tagsArray(S))>> : S \in InitStores}

\* those of the stores whose keys each hold one value, non-empty, without VT
EncodedSingleValued == {e \in Encoded : SingleValued(e[1])}

\* the write was handed the array that readTags returns for the store e[1]
HandedRowsOf(e) == call.tags = e[2]

\* C1 as claimed: for every store S, also one with a key of two or more values,
\* the rows that readTags returns for S, handed unchanged to writeTags with CLEAR,
\* yield a store equal to S.
C1_RoundTripAnyStore ==
  (Ran /\ Flag(CLEAR)) =>
     \A e \in Encoded : HandedRowsOf(e) => call.props = e[1]

\* C1 amended: for every store S whose keys each hold exactly one value, non-empty
\* and free of vertical tabs, the rows that readTags returns for S, handed
\* unchanged to writeTags with CLEAR, yield a store equal to S whatever the file
\* held before: the computed store is S, and so is the store of the file once the
\* call has returned success.
C1_RoundTripSingleValued ==
  (Ran /\ Flag(CLEAR)) =>
     \A e \in EncodedSingleValued :
        HandedRowsOf(e) =>
           /\ call.props = e[1]
           /\ call.ret => store = e[1]

C1_Witness ==
  /\ Ran /\ Flag(CLEAR) /\ call.saved /\ host.fedBack
  /\ \E e \in EncodedSingleValued :
        /\ HandedRowsOf(e)
        /\ DOMAIN e[1] = Keys
        /\ store = e[1]
  /\ call.pre = store

\* C2 as claimed: a row with a non-empty value replaces (a key is taken as the
\* store looks it up, without regard to its case): when the last directive of a
\* key k has the non-empty value v1 VT ... VT vn, the computed store maps k to
\* exactly <<v1, ..., vn>>, every piece of the value, whatever k held before,
\* and so does the file once the call has returned success.
C2_ReplaceDirective ==
  Ran =>
    \A k \in KeysIn :
      RowValue(LastFor(k)) # <<>> =>
        /\ k \in DOMAIN call.props
        /\ PacksTo(RowValue(LastFor(k)), call.props[k])
        /\ call.ret => (k \in DOMAIN store /\ store[k] = call.props[k])

\* C2 amended: a row with a non-empty value replaces: when the last directive of
\* a key k has the non-empty value v1 VT ... VT vn, the computed store maps k to
\* exactly <<v1, ..., vn>>, whatever k held before, except that an empty vn
\* behind a final vertical tab is dropped (n > 1: <<v1, ..., vn-1>>); no value k
\* held before is kept, and the file holds the same once the call has returned
\* success.
C2_ReplaceDropsLastEmpty ==
  Ran =>
    \A k \in KeysIn :
      RowValue(LastFor(k)) # <<>> =>
        /\ k \in DOMAIN call.props
        /\ PacksToLessLastEmpty(RowValue(LastFor(k)), call.props[k])
        /\ call.ret => (k \in DOMAIN store /\ store[k] = call.props[k])

C2_Witness ==
  /\ Ran /\ ~Flag(CLEAR) /\ call.ret
  /\ RowsIn = <<KeyA \o <<TAB, "x", VT, "y">>, KeyA \o <<TAB, "x", VT>>>>
  /\ KeyA \in DOMAIN call.pre
  /\ call.pre[KeyA] = <<<<"x", VT, "y">>, <<>>>>
  /\ store[KeyA] = <<<<"x">>>>

\* C3: a row with an empty value deletes (a key is taken as the store looks it
\* up, without regard to its case): when the last directive of a key k has
\* an empty value, k is absent from the computed store (whether or not k was
\* there before), and without CLEAR every key that no row names keeps its
\* presence and its values.
C3_Deletion ==
  Ran =>
    /\ \A k \in KeysIn : RowValue(LastFor(k)) = <<>> => k \notin DOMAIN call.props
    /\ ~Flag(CLEAR) =>
         \A k \in (DOMAIN call.pre \cup DOMAIN call.props) \ KeysIn :
            /\ k \in DOMAIN call.pre
            /\ k \in DOMAIN call.props
            /\ call.props[k] = call.pre[k]
    /\ call.ret => PropsEqual(store, call.props)

C3_Witness ==
  /\ Ran /\ ~Flag(CLEAR) /\ call.ret
  /\ RowsIn = <<<<"a", TAB>>>>
  /\ DOMAIN call.pre = Keys
  /\ Len(call.pre[KeyA]) = 2
  /\ DOMAIN store = {KeyB}
  /\ store[KeyB] = call.pre[KeyB]

\* the keys whose last directive carries a non-empty value
KeysSet == {k \in KeysIn : RowValue(LastFor(k)) # <<>>}

\* C4 as claimed: with CLEAR the key set of the final store is exactly the set of
\* keys present in the input sequence.
C4_ClearKeysAreInputKeys ==
  (Ran /\ Flag(CLEAR)) => DOMAIN call.props = KeysIn

\* C4 amended: with CLEAR the store is emptied before any row is applied, so
\* nothing of the prior store survives: the key set of the final store is exactly
\* the set of keys whose last row in the input carries a non-empty value (a key
\* the input only deletes, and a row without TAB, leave no key), and each such
\* key holds the values of that row.
C4_ClearKeysAreKeysSet ==
  (Ran /\ Flag(CLEAR)) =>
     /\ DOMAIN call.props = KeysSet
     /\ \A k \in KeysSet : PacksToLessLastEmpty(RowValue(LastFor(k)), call.props[k])
     /\ call.ret => DOMAIN store = KeysSet

C4_Witness ==
  /\ Ran /\ Flag(CLEAR) /\ call.saved
  /\ DOMAIN call.pre = Keys
  /\ RowsIn = <<<<"b", TAB, "y", TAB, "x">>, <<"a", TAB>>>>
  /\ DOMAIN store = {KeyB}

\* C5: with DIFF_SAVE, a write on a valid file whose resulting store equals the
\* store the file holds returns success and calls neither setProperties nor
\* save; when the resulting store differs, save is called exactly once and its
\* result is returned.
C5_DiffSave ==
  (Ran /\ Flag(DIFF_SAVE)) =>
     IF call.props = call.pre
     THEN call.ret /\ call.nSet = 0 /\ call.nSave = 0 /\ store = call.pre
     ELSE call.nSave = 1 /\ call.ret = call.saved

C5_Witness ==
  /\ Ran /\ Flag(DIFF_SAVE) /\ ~Flag(CLEAR)
  /\ RowsIn = <<KeyA \o <<TAB, "x", VT, "y">>>>
  /\ DOMAIN call.pre = Keys
  /\ call.props = call.pre
  /\ call.ret /\ call.nSave = 0

\* C10: a write that repeats the rows and the CLEAR setting of a write that
\* succeeded, now with DIFF_SAVE, returns success, calls neither setProperties
\* nor save, and leaves the store as the first write left it.
C10_WriteTwice ==
  (IsWrite /\ host.again) =>
     /\ call.ret
     /\ call.nSet = 0
     /\ call.nSave = 0
     /\ store = call.pre
     /\ call.props = call.pre

C10_Witness ==
  /\ IsWrite /\ host.again /\ ~Flag(CLEAR)
  /\ Len(RowsIn) = 2
  /\ DOMAIN store = Keys
  /\ KeysIn = {KeyA}
  /\ call.ret /\ call.nSave = 0

IsRead == call.op \in {"taglib_file_tags", "embed_taglib_file_tags"}

\* the (key, value) pairs of a store, in the order the map is iterated
RECURSIVE PairsOf(_, _)
PairsOf(S, ks) ==
  IF ks = <<>> THEN <<>>
  ELSE [i \in 1..Len(S[Head(ks)]) |-> <<Head(ks), S[Head(ks)][i]>>] \o PairsOf(S, Tail(ks))

ExpectedPairs(S) == PairsOf(S, InOrder(DOMAIN S))

\* for a file that opened and an array that could be allocated: N rows, one per
\* value, each KEY TAB VALUE, then the sentinel at index N
RowsPerValue ==
  LET P == ExpectedPairs(call.pre)
      N == Len(P)
  IN (kind # "missing" /\ call.mallocOk) =>
        /\ call.out # None
        /\ Len(call.out[1]) = N + 1
        /\ call.out[1][N + 1] = None
        /\ \A i \in 1..N : call.out[1][i] = Some(P[i][1] \o <<TAB>> \o P[i][2])

\* C6 as claimed: readTags on a file that opened returns N rows KEY TAB VALUE, one
\* per value, and the sentinel at index N; null is returned only when the file
\* failed to open.
C6_NullOnlyWhenNotOpened ==
  IsRead => (RowsPerValue /\ (call.out = None => kind = "missing"))

\* C6 amended: readTags on a file that opened returns, unless the allocation of
\* the array fails, N rows KEY TAB VALUE in iteration order, one per value, and
\* the sentinel at index N (an empty store: the sentinel alone); null is returned
\* only when the file failed to open or the array could not be allocated.
C6_NullOnlyWhenNotOpenedOrNoMemory ==
  IsRead =>
     /\ RowsPerValue
     /\ call.out = None =>
           (call.op = "taglib_file_tags" /\ (kind = "missing" \/ ~call.mallocOk))
     /\ (call.op = "taglib_file_tags" /\ kind = "missing") => call.out = None

C6_Witness ==
  /\ call.op = "taglib_file_tags" /\ call.mallocOk
  /\ DOMAIN call.pre = {KeyA}
  /\ call.pre[KeyA] = <<<<"x">>, <<>>>>
  /\ call.out = Some(<<Some(KeyA \o <<TAB, "x">>), Some(KeyA \o <<TAB>>), None>>)

(***************************************************************************)
(* Claims about the frame calls, checked under SpecFrames.                 *)
(***************************************************************************)
IsFrameWrite == call.op = "taglib_file_write_id3v2_frames"

FramesRan ==
  IsFrameWrite /\ call.filename # None /\ call.tags # None /\ kind # "missing"

\* the tag the call started from
PreTag == IF call.preHasTag THEN call.preFrames ELSE <<>>

\* the frame ID a key names: the key up to its first ':'
HasColon(key) == \E i \in 1..Len(key) : key[i] = COLON
FrameIDOf(key) ==
  IF HasColon(key)
  THEN LET c == CHOOSE i \in 1..Len(key) : key[i] = COLON /\ \A j \in 1..(i - 1) : key[j] # COLON
       IN [i \in 1..(c - 1) |-> key[i]]
  ELSE key

TabRows == {i \in 1..Len(RowsIn) : HasTab(RowsIn[i])}
BatchIDs == {FrameIDOf(RowKey(RowsIn[i])) : i \in TabRows}
InstancesIn(tag, X) == Cardinality({i \in 1..Len(tag) : tag[i].id = X})
DescribedInBatch(X) ==
  Cardinality({i \in TabRows : FrameIDOf(RowKey(RowsIn[i])) = X /\ RowValue(RowsIn[i]) # <<>>})

\* C7: for each row the frames of the row's frame ID (the key up to ':') are
\* removed before the replacement is added, so after the write the tag holds, of
\* every frame ID the batch names, only the instances the batch describes.
C7_ReplaceByFrameID ==
  (FramesRan /\ call.saved) =>
     \A X \in BatchIDs : InstancesIn(frames, X) <= DescribedInBatch(X)

\* C8 as claimed: with CLEAR, every frame instance whose frame ID no row of the
\* batch mentions is still in the tag, unchanged, after the write.
C8_ClearPreservesUnmentioned ==
  (FramesRan /\ call.saved /\ Flag(CLEAR)) =>
     \A X \in FrameIDs(PreTag) \ BatchIDs : bucket(frames, X) = bucket(PreTag, X)

\* C8 amended: with CLEAR, every frame instance whose frame ID no row of the
\* batch mentions is removed from the tag; it is without CLEAR that these
\* instances are still in the tag, unchanged, after the write.
C8_ClearRemovesUnmentioned ==
  (FramesRan /\ call.saved) =>
     \A X \in FrameIDs(PreTag) \ BatchIDs :
        IF Flag(CLEAR) THEN bucket(frames, X) = <<>>
        ELSE bucket(frames, X) = bucket(PreTag, X)

C8_Witness ==
  /\ FramesRan /\ call.saved /\ Flag(CLEAR)
  /\ RowsIn = <<COMM \o <<TAB, "y">>>>
  /\ FrameIDs(PreTag) = {TIT2, TXXX}
  /\ FrameIDs(frames) = {COMM}

IsFrameRead == call.op = "taglib_file_id3v2_frames"

\* C9: readFormatFrames on a file that opens but is not MPEG, or has no ID3v2
\* tag, or has an ID3v2 tag without frames, returns the sentinel-only sequence;
\* it returns null only when the file could not be opened (allocation failure
\* aside), and then it does.
C9_AbsenceVsEmptiness ==
  (IsFrameRead /\ call.mallocOk) =>
     /\ (kind # "missing" /\ (kind # "mpeg" \/ ~hasTag \/ frames = <<>>)) =>
           call.out = Some(<<None>>)
     /\ call.out = None <=> kind = "missing"

C9_Witness ==
  /\ IsFrameRead /\ call.mallocOk
  /\ kind = "mpeg" /\ ~hasTag
  /\ call.out = Some(<<None>>)

====
